---- MODULE Spec2Model ----
(***************************************************************************)
(* electrum-seeder (src/index.js): generation and validation of versioned  *)
(* brain seeds.                                                            *)
(*                                                                         *)
(* randomBrainSeed combines entropy into a buffer, trims it to `bits`,     *)
(* and mines for a phrase whose HMAC prefix equals the version; checkSeed  *)
(* validates a phrase.  HMAC-SHA512 and SHA-256 are modelled as arbitrary  *)
(* functions: each digest is drawn from a small set when it is computed,   *)
(* and the digest of the phrase hashed last is remembered, so that the     *)
(* validation of a generated phrase sees the digest generation saw.        *)
(*                                                                         *)
(* Strings are sequences of one-character strings; a phrase (words joined  *)
(* by single spaces) is the sequence of its words.                         *)
(***************************************************************************)
EXTENDS Integers, Sequences, FiniteSets

(* ---------------------------------------------------------------------- *)
(* Bounds and program constants                                            *)
(* ---------------------------------------------------------------------- *)

\* Number.MAX_SAFE_INTEGER (2^53 - 1), scaled down: the loop runs nonce = 1 .. MAX_SAFE_INTEGER - 1
MAX_SAFE_INTEGER == 4

\* length in bytes of a SHA-256 digest (32), scaled down
HashLen == 1

\* the default of config.bits (132), scaled down so that 2^DefaultBits = B^3 as 2^132 = 2048^12
DefaultBits == 6

\* the least strength asked of the entropy collector (132), scaled down
MinCollectorBits == 6

\* entropy collectors that may run at the same time
MaxPending == 1

\* the integers whose encoding is compared with the radix equations before any call
MaxEncoded == 64

\* bits in a byte: Math.ceil(bits / 8)
BYTE == 8

\* a version mismatch carries the short-seed hint below this many words
ShortSeedWords == 11

\* values a byte of the SHA-256 digest takes
ByteValues == {0, 255}

\* the first three hex characters of an HMAC-SHA512 digest (versions have at most three characters)
Digests == { <<"0", "1", "a">>, <<"0", "1", "0">>, <<"a", "1", "0">>, <<"1", "a", "0">> }

DEFAULT_VERSION == <<"0", "1">>

\* versions a caller passes: hex of 1 to 3 characters (one in upper case), and one that is not hex
HexVersions == { <<"0">>, <<"A">>, <<"0", "1", "a">> }

Versions == HexVersions \cup { <<"g">> }

None == [has |-> FALSE]

Some(x) == [has |-> TRUE, val |-> x]

OrElse(opt, default) == IF opt.has THEN opt.val ELSE default

(* ---------------------------------------------------------------------- *)
(* Pure helpers                                                            *)
(* ---------------------------------------------------------------------- *)

Min(a, b) == IF a < b THEN a ELSE b

Max(a, b) == IF a > b THEN a ELSE b

\* Math.ceil(a / b) for a >= 0, b > 0
Ceil(a, b) == (a + b - 1) \div b

RECURSIVE Pow(_, _)
Pow(b, e) == IF e = 0 THEN 1 ELSE b * Pow(b, e - 1)

\* String.prototype.toLowerCase on one character
LowerChar(c) ==
  CASE c = "A" -> "a"
    [] c = "B" -> "b"
    [] c = "C" -> "c"
    [] c = "D" -> "d"
    [] c = "E" -> "e"
    [] c = "F" -> "f"
    [] c = "G" -> "g"
    [] OTHER -> c

toLowerCase(s) == [i \in DOMAIN s |-> LowerChar(s[i])]

\* String.prototype.substring(0, n)
substring(s, n) == SubSeq(s, 1, Min(n, Len(s)))

\* the wordlists of the supported languages (2048 words each), cut to four words
Wordlists ==
  [ english |-> <<"abandon", "ability", "able", "about">>,
    french  |-> <<"abaisser", "abandon", "abdiquer", "abeille">> ]

SupportedLanguage(language) == language \in DOMAIN Wordlists

\* validWordlist(language); it throws 'Missing wordlist' for any other language
validWordlist(language) == Wordlists[language]

\* new BN(buffer): the buffer read as a big-endian unsigned integer
RECURSIVE BN(_)
BN(buf) ==
  IF buf = <<>> THEN 0
  ELSE BN(SubSeq(buf, 1, Len(buf) - 1)) * Pow(2, BYTE) + buf[Len(buf)]

\* BN.shrn(k)
shrn(v, k) == v \div Pow(2, k)

\* BN.bitLength()
RECURSIVE bitLength(_)
bitLength(v) == IF v = 0 THEN 0 ELSE 1 + bitLength(v \div 2)

\* seedBuf = sha256(entropy, randomBytes(bytes)).digest().slice(0, bytes)
combine(digest, bytes) == SubSeq(digest, 1, Min(bytes, Len(digest)))

\* new BN(seedBuf).shrn(Math.ceil(bits / 8) * 8 - bits)
trim(seedBuf, bits) == shrn(BN(seedBuf), Ceil(bits, BYTE) * BYTE - bits)

\* bnToSeed with the words in the opposite order, the most significant digit first
RECURSIVE bnToSeed_MostSignificantFirst(_, _)
bnToSeed_MostSignificantFirst(i, language) ==
  IF i = 0 THEN <<>>
  ELSE LET wordlist == validWordlist(language)
           totalWordLen == Len(wordlist)
       IN bnToSeed_MostSignificantFirst(i \div totalWordLen, language)
            \o <<wordlist[(i % totalWordLen) + 1]>>

\* bnToSeed(i, language) for a supported language
RECURSIVE bnToSeed(_, _)
bnToSeed(i, language) ==
  IF i = 0 THEN <<>>
  ELSE LET wordlist == validWordlist(language)
           totalWordLen == Len(wordlist)
       IN <<wordlist[(i % totalWordLen) + 1]>> \o bnToSeed(i \div totalWordLen, language)

\* the candidate the loop sets entropyBn to in the iteration after `nonce` iterations
nextCandidate(entropyBn_, nonce_) == entropyBn_ + (nonce_ + 1)

\* the loop's condition for the iteration numbered n
loopRuns(n) == n < MAX_SAFE_INTEGER

\* seedVersion: the digest's first versionLength characters
seedVersion(hex, versionLength) == substring(hex, versionLength)

\* brainSeed.split(' '): the empty string splits into one empty word
split(phrase) == IF phrase = <<>> THEN <<"">> ELSE phrase

(* ---------------------------------------------------------------------- *)
(* Collaborators outside src/ (bip39-checker, more-entropy)                 *)
(* ---------------------------------------------------------------------- *)

\* a phrase handed to checkSeed: null, or its tokens between single spaces ("" where spaces repeat)
NullPhrase == [null |-> TRUE, toks |-> <<>>]

Phrase(toks) == [null |-> FALSE, toks |-> toks]

LowerWord(w) == IF w = "ABLE" THEN "able" ELSE w

RECURSIVE canonical(_)
canonical(toks) ==
  IF toks = <<>> THEN <<>>
  ELSE IF Head(toks) = "" THEN canonical(Tail(toks))
  ELSE <<LowerWord(Head(toks))>> \o canonical(Tail(toks))

\* normalize(seed) rejects null and empty input with 'seed string required'
normalizeThrows(raw) == raw.null \/ canonical(raw.toks) = <<>>

\* normalize(seed): lower case, runs of white space collapsed, trimmed
normalize(raw) == canonical(raw.toks)

\* checkWords(seed, language): every word is in the language's wordlist
checkWords(brainSeed, language) ==
  LET wordlist == validWordlist(language)
      words == split(brainSeed)
  IN \A i \in DOMAIN words : \E j \in DOMAIN wordlist : wordlist[j] = words[i]

(* ---------------------------------------------------------------------- *)
(* State                                                                   *)
(* ---------------------------------------------------------------------- *)

VARIABLES
  config,        \* the caller's config object (isNull: the caller passes null)
  pending,       \* the running entropy collectors, each with its callback's closure
  pc,            \* "idle", or "mining" while randomBrainSeed is in its loop
  frame,         \* the invocation that runs or ran last: "sync" (the caller's) or "nested" (the collector callback's)
  args,          \* the config that invocation read, and whether it had a seedCallback
  bits,          \* its local bits
  language,      \* its local language
  version,       \* its local version, lower-cased before the loop
  seedBuf,       \* the combined buffer
  entropyValue,  \* entropyBn before the loop
  entropyBn,     \* entropyBn
  nonce,         \* the number of the last iteration that ran
  brainSeed,     \* brainSeed
  hmac,          \* the phrase hashed last and its digest
  exitBy,        \* how the loop ended: "break", or "bound" when the loop's condition failed
  ret,           \* what the caller's last call gave it: undefined, a phrase or an exception
  started,       \* collectors the caller's last call started
  callbacks,     \* phrases passed to seedCallback since the last call or collector report began
  asyncError,    \* the exception thrown out of the last collector callback
  validity       \* the result of the last checkSeed, with its arguments

vars == <<config, pending, pc, frame, args, bits, language, version, seedBuf, entropyValue,
          entropyBn, nonce, brainSeed, hmac, exitBy, ret, started, callbacks, asyncError, validity>>

locals == <<bits, language, version, seedBuf, entropyValue, entropyBn, nonce, brainSeed, hmac, exitBy>>

NoHmac == [known |-> FALSE, msg |-> <<>>, hex |-> <<>>]

NoRet == [kind |-> "none", phrase |-> <<>>, error |-> ""]

NoValidity ==
  [done |-> FALSE, raw |-> NullPhrase, version |-> None, language |-> None,
   hex |-> <<>>, raised |-> FALSE, valid |-> FALSE, error |-> "", expecting |-> <<>>, got |-> <<>>, shortStr |-> FALSE]

NoArgs == [entropy |-> None, version |-> None, bits |-> None, language |-> None, cb |-> FALSE]

EntropyInputs == {None, Some("string"), Some("number")}

BitsInputs == {None, Some(BYTE * HashLen), Some(BYTE * HashLen + 1)}

LanguageInputs == {None, Some("french"), Some("pig_latin")}

VersionInputs == {None} \cup {Some(v) : v \in Versions}

\* the config objects a caller passes: null, or an object that sets entropy and at most one other option
Configs ==
  { [isNull |-> TRUE, entropy |-> None, version |-> None, bits |-> None, language |-> None] }
  \cup
  { c \in [isNull : {FALSE}, entropy : EntropyInputs, version : VersionInputs,
           bits : BitsInputs, language : LanguageInputs] :
      Cardinality({f \in {"version", "bits", "language"} : c[f].has}) <= 1 }

Init ==
  /\ config \in Configs
  /\ pending = <<>>
  /\ pc = "idle"
  /\ frame = "none"
  /\ args = NoArgs
  /\ bits = 0
  /\ language = "english"
  /\ version = <<>>
  /\ seedBuf = <<>>
  /\ entropyValue = 0
  /\ entropyBn = 0
  /\ nonce = 0
  /\ brainSeed = <<>>
  /\ hmac = NoHmac
  /\ exitBy = "none"
  /\ ret = NoRet
  /\ started = 0
  /\ callbacks = <<>>
  /\ asyncError = ""
  /\ validity = NoValidity

(* ---------------------------------------------------------------------- *)
(* randomBrainSeed                                                         *)
(* ---------------------------------------------------------------------- *)

\* !entropy
Falsy(entropy) == ~entropy.has

\* createHash('sha256').update(entropy) takes a string or a buffer; an array is made a buffer first
Hashable(kind) == kind \in {"string", "buffer", "array"}

ResetLocals ==
  /\ bits' = 0
  /\ language' = "english"
  /\ version' = <<>>
  /\ seedBuf' = <<>>
  /\ entropyValue' = 0
  /\ entropyBn' = 0
  /\ nonce' = 0
  /\ brainSeed' = <<>>
  /\ hmac' = NoHmac
  /\ exitBy' = "none"

\* an exception leaves the invocation fr: to the caller, or out of the collector's callback
Throw(fr, err) ==
  /\ pc' = "idle"
  /\ IF fr = "sync"
     THEN ret' = [kind |-> "throw", phrase |-> <<>>, error |-> err] /\ asyncError' = ""
     ELSE asyncError' = err /\ UNCHANGED ret

\* return brainSeed: to the caller, or to the collector's callback, which passes it to seedCallback
Return(fr, phrase) ==
  /\ pc' = "idle"
  /\ IF fr = "sync"
     THEN ret' = [kind |-> "phrase", phrase |-> phrase, error |-> ""] /\ UNCHANGED callbacks
     ELSE callbacks' = Append(callbacks, phrase) /\ UNCHANGED ret

\* lines 74-95: with entropy given, combine it with random bytes, trim to bits, enter the loop
Generate(fr, a) ==
  LET bits_ == OrElse(a.bits, DefaultBits)
      bytes == Ceil(bits_, BYTE)
  IN /\ frame' = fr
     /\ args' = a
     /\ \E digest \in [1..HashLen -> ByteValues] :
          IF ~Hashable(a.entropy.val)
          THEN /\ Throw(fr, "entropy parameter must be a string, buffer, or array")
               /\ ResetLocals
          ELSE LET buf == combine(digest, bytes)
               IN /\ pc' = "mining"
                  /\ bits' = bits_
                  /\ language' = OrElse(a.language, "english")
                  /\ version' = toLowerCase(OrElse(a.version, DEFAULT_VERSION))
                  /\ seedBuf' = buf
                  /\ entropyValue' = trim(buf, bits_)
                  /\ entropyBn' = trim(buf, bits_)
                  /\ nonce' = 0
                  /\ brainSeed' = <<>>
                  /\ hmac' = NoHmac
                  /\ exitBy' = "none"
                  /\ asyncError' = ""
                  /\ ret' = IF fr = "sync" THEN NoRet ELSE ret

ArgsOf(c, cb) ==
  [entropy |-> c.entropy, version |-> c.version, bits |-> c.bits, language |-> c.language, cb |-> cb]

\* lines 60-72: without entropy, throw when there is no seedCallback, else start a collector and return
NoEntropy(cb) ==
  /\ frame' = "sync"
  /\ args' = ArgsOf(config, cb)
  /\ ResetLocals
  /\ pc' = "idle"
  /\ asyncError' = ""
  /\ IF ~cb
     THEN /\ ret' = [kind |-> "throw", phrase |-> <<>>,
                     error |-> "Provide seedCallback parameter unless you plan to provide config.entropy"]
          /\ started' = 0
          /\ UNCHANGED pending
     ELSE /\ Len(pending) < MaxPending
          /\ pending' = Append(pending,
                 [ownsConfig |-> ~config.isNull,
                  version |-> OrElse(config.version, DEFAULT_VERSION),
                  asked |-> Max(OrElse(config.bits, DefaultBits), MinCollectorBits)])
          /\ started' = 1
          /\ ret' = [kind |-> "undefined", phrase |-> <<>>, error |-> ""]

\* the caller calls randomBrainSeed(config, seedCallback); cb: a seedCallback is given
randomBrainSeed(cb) ==
  /\ pc = "idle"
  /\ callbacks' = <<>>
  /\ validity' = NoValidity
  /\ UNCHANGED config
  /\ IF Falsy(config.entropy)
     THEN NoEntropy(cb)
     ELSE /\ Generate("sync", ArgsOf(config, cb))
          /\ started' = 0
          /\ UNCHANGED pending

RemoveAt(s, i) == SubSeq(s, 1, i - 1) \o SubSeq(s, i + 1, Len(s))

\* Object.assign(config, {version, entropy: newEntropy}) on the object the closure holds
assigned(c, cl) == [c EXCEPT !.version = Some(cl.version), !.entropy = Some("array")]

FreshConfig == [isNull |-> FALSE, entropy |-> None, version |-> None, bits |-> None, language |-> None]

\* lines 65-70: a collector reports its entropy; its callback stops it, writes version and
\* entropy into config, and calls randomBrainSeed again with the same seedCallback
collectorReport(i) ==
  /\ pc = "idle"
  /\ i \in DOMAIN pending
  /\ LET cl == pending[i]
         obj == assigned(IF cl.ownsConfig THEN config ELSE FreshConfig, cl)
     IN /\ pending' = RemoveAt(pending, i)
        /\ config' = IF cl.ownsConfig THEN obj ELSE config
        /\ Generate("nested", ArgsOf(obj, TRUE))
  /\ callbacks' = <<>>
  /\ validity' = NoValidity
  /\ UNCHANGED started

HmacOf(msg) == IF hmac.known /\ hmac.msg = msg THEN {hmac.hex} ELSE Digests

\* lines 96-108: one iteration of the loop, and the return when the loop ends
mine ==
  /\ pc = "mining"
  /\ UNCHANGED <<config, pending, frame, args, bits, language, version, seedBuf, entropyValue,
                 started, validity>>
  /\ LET n == nonce + 1
         candidate == nextCandidate(entropyBn, nonce)
     IN /\ nonce' = n
        /\ entropyBn' = candidate
        /\ IF ~SupportedLanguage(language)
           THEN /\ Throw(frame, "Missing wordlist")
                /\ UNCHANGED <<brainSeed, hmac, exitBy, callbacks>>
           ELSE LET phrase == bnToSeed(candidate, language)
                IN /\ brainSeed' = phrase
                   /\ \E hex \in HmacOf(phrase) :
                        /\ hmac' = [known |-> TRUE, msg |-> phrase, hex |-> hex]
                        /\ IF phrase # <<>> /\ seedVersion(hex, Len(version)) = version
                           THEN /\ exitBy' = "break"
                                /\ Return(frame, phrase)
                                /\ UNCHANGED asyncError
                           ELSE IF loopRuns(n + 1)
                           THEN /\ UNCHANGED <<pc, exitBy, ret, callbacks, asyncError>>
                           ELSE /\ exitBy' = "bound"
                                /\ Return(frame, phrase)
                                /\ UNCHANGED asyncError

(* ---------------------------------------------------------------------- *)
(* checkSeed                                                               *)
(* ---------------------------------------------------------------------- *)

NoError == [error |-> "null", expecting |-> <<>>, got |-> <<>>, shortStr |-> FALSE]

Error(msg) == [error |-> msg, expecting |-> <<>>, got |-> <<>>, shortStr |-> FALSE]

\* assertValidSeed with the short-seed hint given up to 11 words instead of below 11
assertValidSeed_HintOffByOne(brainSeed_, version_, language_, hex) ==
  LET v == toLowerCase(version_)
  IN IF ~SupportedLanguage(language_) THEN Error("Missing wordlist")
     ELSE IF ~checkWords(brainSeed_, language_) THEN Error("Invalid brain seed")
     ELSE LET sv == seedVersion(hex, Len(v))
              words == Len(split(brainSeed_))
          IN IF sv # v
             THEN [error |-> "Invalid brain seed version", expecting |-> v, got |-> sv,
                   shortStr |-> words <= ShortSeedWords]
             ELSE NoError

\* lines 169-180: the exception assertValidSeed throws (NoError: none); hex is the HMAC digest of brainSeed
assertValidSeed(brainSeed_, version_, language_, hex) ==
  LET v == toLowerCase(version_)
  IN IF ~SupportedLanguage(language_) THEN Error("Missing wordlist")
     ELSE IF ~checkWords(brainSeed_, language_) THEN Error("Invalid brain seed")
     ELSE LET sv == seedVersion(hex, Len(v))
              words == Len(split(brainSeed_))
          IN IF sv # v
             THEN [error |-> "Invalid brain seed version", expecting |-> v, got |-> sv,
                   shortStr |-> words < ShortSeedWords]
             ELSE NoError

\* lines 142-156: every exception of normalize and assertValidSeed is caught and becomes the
\* error of the Validity returned (raised: an exception leaves checkSeed)
checkSeedResult(raw, version_, language_, hex) ==
  LET e == IF normalizeThrows(raw) THEN Error("seed string required")
           ELSE assertValidSeed(normalize(raw), version_, language_, hex)
  IN [raised |-> FALSE, valid |-> e.error = "null", error |-> e.error, expecting |-> e.expecting,
      got |-> e.got, shortStr |-> e.shortStr]

\* the phrases the caller has been given
Generated ==
  (IF ret.kind = "phrase" THEN {ret.phrase} ELSE {}) \cup {callbacks[i] : i \in DOMAIN callbacks}

Repeat(w, n) == [i \in 1..n |-> w]

\* what a caller checks: a phrase it was given and variations of it under the options it was
\* generated with, the phrase under another version or language, or else fixed phrases
CheckInputs ==
  IF Generated = {}
  THEN { <<raw, v, None>> :
           raw \in { NullPhrase, Phrase(<<>>), Phrase(<<"">>), Phrase(<<"lazy", "dog">>),
                     Phrase(<<"able", "", "ABLE">>),
                     Phrase(Repeat("able", ShortSeedWords - 1)),
                     Phrase(Repeat("able", ShortSeedWords)) },
           v \in {None, Some(<<"A">>)} }
       \cup { <<Phrase(<<"lazy", "dog">>), None, Some("pig_latin")>> }
  ELSE UNION { { <<Phrase(g), args.version, args.language>>,
                 <<Phrase(<<"">> \o g), args.version, args.language>>,
                 <<Phrase(g \o <<"able">>), args.version, args.language>>,
                 <<Phrase(g \o <<"nonword">>), args.version, args.language>>,
                 <<Phrase(g), Some(<<"A">>), args.language>>,
                 <<Phrase(g), args.version, Some("pig_latin")>> } : g \in Generated }

\* the caller calls checkSeed(brainSeed, {version, language})
checkSeed(raw, versionOpt, languageOpt) ==
  /\ pc = "idle"
  /\ ~validity.done
  /\ \E hex \in (IF normalizeThrows(raw) THEN {<<>>} ELSE HmacOf(normalize(raw))) :
       LET r == checkSeedResult(raw, OrElse(versionOpt, DEFAULT_VERSION),
                                OrElse(languageOpt, "english"), hex)
       IN validity' = [done |-> TRUE, raw |-> raw, version |-> versionOpt, language |-> languageOpt,
                       hex |-> hex, raised |-> r.raised, valid |-> r.valid, error |-> r.error, expecting |-> r.expecting,
                       got |-> r.got, shortStr |-> r.shortStr]
  /\ UNCHANGED <<config, pending, pc, frame, args, locals, ret, started, callbacks, asyncError>>

Next ==
  \/ \E cb \in BOOLEAN : randomBrainSeed(cb)
  \/ \E i \in 1..MaxPending : collectorReport(i)
  \/ mine
  \/ \E in \in CheckInputs : checkSeed(in[1], in[2], in[3])

Spec == Init /\ [][Next]_vars

(* ---------------------------------------------------------------------- *)
(* What the running or last invocation of randomBrainSeed was given        *)
(* ---------------------------------------------------------------------- *)

GivenVersion == OrElse(args.version, DEFAULT_VERSION)

GivenLanguage == OrElse(args.language, "english")

GivenBits == OrElse(args.bits, DefaultBits)

\* the loop of the last invocation has ended and its brainSeed was returned
Returned == pc = "idle" /\ exitBy # "none"

\* the phrase it returned to the caller or passed to seedCallback
Output == IF frame = "sync" THEN ret.phrase ELSE callbacks[Len(callbacks)]

InWordlist(w, l) == \E j \in DOMAIN Wordlists[l] : Wordlists[l][j] = w

IndexOf(w, l) == CHOOSE j \in 0..(Len(Wordlists[l]) - 1) : Wordlists[l][j + 1] = w

RECURSIVE Log2(_)
Log2(n) == IF n <= 1 THEN 0 ELSE 1 + Log2(n \div 2)

RECURSIVE Decode(_, _)
Decode(w, l) ==
  IF w = <<>> THEN 0 ELSE IndexOf(Head(w), l) + Len(Wordlists[l]) * Decode(Tail(w), l)

(* ---------------------------------------------------------------------- *)
(* Claims                                                                  *)
(* ---------------------------------------------------------------------- *)

\* the phrase p is valid for version v in language l, hex being its HMAC digest
ValidFor(p, v, l, hex) ==
  /\ \A i \in DOMAIN p : InWordlist(p[i], l)
  /\ substring(hex, Len(v)) = toLowerCase(v)

\* C1: every phrase randomBrainSeed returns or passes to seedCallback, for a hex version of 1 to
\* 3 characters and a supported language, is valid for that version, and checkSeed with the
\* same version and language says so, however the loop ended.
C1_GeneratedValid ==
  (Returned /\ GivenVersion \in HexVersions \cup {DEFAULT_VERSION} /\ SupportedLanguage(GivenLanguage))
  => /\ hmac.known /\ hmac.msg = Output
     /\ ValidFor(Output, GivenVersion, GivenLanguage, hmac.hex)
     /\ (validity.done /\ validity.raw = Phrase(Output) /\ validity.version = args.version
           /\ validity.language = args.language) => validity.valid

\* the same for the phrases returned when the loop ended at a match
MatchedOutputValid ==
  (Returned /\ exitBy = "break" /\ SupportedLanguage(GivenLanguage))
  => /\ hmac.known /\ hmac.msg = Output
     /\ ValidFor(Output, GivenVersion, GivenLanguage, hmac.hex)
     /\ (validity.done /\ validity.raw = Phrase(Output) /\ validity.version = args.version
           /\ validity.language = args.language) => validity.valid

\* C2: for a supported language checkSeed never raises, and its result is decided by the first
\* failing check: null or empty phrase, a word outside the wordlist, a version tag that differs
\* (with the short-seed hint exactly below 11 words), else valid with error null.
C2_CheckSeedDecision ==
  (validity.done /\ SupportedLanguage(OrElse(validity.language, "english")))
  => LET l == OrElse(validity.language, "english")
         v == toLowerCase(OrElse(validity.version, DEFAULT_VERSION))
         empty == validity.raw.null \/ \A i \in DOMAIN validity.raw.toks : validity.raw.toks[i] = ""
         words == normalize(validity.raw)
         tag == substring(validity.hex, Len(v))
     IN /\ ~validity.raised
        /\ IF empty
           THEN ~validity.valid /\ validity.error = "seed string required"
           ELSE IF \E i \in DOMAIN words : ~InWordlist(words[i], l)
           THEN ~validity.valid /\ validity.error = "Invalid brain seed"
           ELSE IF tag # v
           THEN /\ ~validity.valid
                /\ validity.error = "Invalid brain seed version"
                /\ validity.expecting = v
                /\ validity.got = tag
                /\ validity.shortStr = (Len(words) < 11)
           ELSE validity.valid /\ validity.error = "null"
        /\ validity.valid = (~empty /\ ValidFor(words, v, l, validity.hex))

\* a generated phrase, written with a leading space, was checked and found valid
C2_Witness ==
  /\ validity.done
  /\ validity.valid
  /\ Len(validity.raw.toks) >= 2
  /\ validity.raw.toks[1] = ""
  /\ SupportedLanguage(OrElse(validity.language, "english"))

\* a version mismatch on a phrase of 11 words, which carries no short-seed hint
C2_LongMismatch ==
  validity.done /\ validity.error = "Invalid brain seed version" /\ ~validity.shortStr

\* C3: the candidate tested at iteration nonce is entropyValue + nonce, entropyValue being the
\* trimmed integer before the loop.
C3_LinearSearch == nonce >= 1 => entropyBn = entropyValue + nonce

\* what the loop does: the candidate at iteration nonce is entropyValue + nonce (nonce + 1) / 2
TriangularSearch == nonce >= 1 => entropyBn = entropyValue + (nonce * (nonce + 1)) \div 2

\* C4: when the loop ends at its bound without a match, randomBrainSeed fails and neither
\* returns a phrase nor passes one to seedCallback.
C4_FailsClosed ==
  (pc = "idle" /\ exitBy = "bound")
  => IF frame = "sync" THEN ret.kind = "throw" ELSE callbacks = <<>> /\ asyncError # ""

\* C5: a call without entropy and with a seedCallback returns no phrase and starts one
\* collector asked for max(bits, 132) bits; the collector's report stops it and is followed by
\* exactly one seedCallback, no second collector being started; a call with entropy starts no
\* collector and never invokes seedCallback.
C5_SingleShot ==
  /\ (frame = "sync" /\ pc = "idle" /\ Falsy(args.entropy) /\ args.cb)
     => /\ ret.kind = "undefined"
        /\ started = 1
        /\ pending # <<>>
        /\ pending[Len(pending)].asked = Max(GivenBits, MinCollectorBits)
  /\ frame = "nested"
     => /\ Len(pending) < MaxPending
        /\ ~Falsy(args.entropy)
        /\ IF pc = "mining" THEN callbacks = <<>> ELSE Len(callbacks) = 1
  /\ (frame = "sync" /\ ~Falsy(args.entropy)) => started = 0 /\ callbacks = <<>>

\* the same, the collector's report being followed by one seedCallback when the language is supported
SingleShotSupported ==
  /\ (frame = "sync" /\ pc = "idle" /\ Falsy(args.entropy) /\ args.cb)
     => /\ ret.kind = "undefined"
        /\ started = 1
        /\ pending # <<>>
        /\ pending[Len(pending)].asked = Max(GivenBits, MinCollectorBits)
  /\ frame = "nested"
     => /\ Len(pending) < MaxPending
        /\ ~Falsy(args.entropy)
        /\ IF pc = "mining" THEN callbacks = <<>>
           ELSE IF SupportedLanguage(GivenLanguage) THEN Len(callbacks) = 1 /\ asyncError = ""
           ELSE callbacks = <<>> /\ asyncError = "Missing wordlist"
  /\ (frame = "sync" /\ ~Falsy(args.entropy)) => started = 0 /\ callbacks = <<>>

\* C6: an unsupported entropy type, a missing seedCallback and an unknown language are raised
\* out of the call that was given them: that call starts no collector, and no exception is
\* thrown later inside a collector's callback.
C6_ErrorsRaisedByCall ==
  /\ asyncError = ""
  /\ (frame = "sync" /\ pc = "idle" /\ ~SupportedLanguage(GivenLanguage))
     => ret.kind = "throw" /\ started = 0

\* on the path with entropy these errors are raised out of the call
SyncErrorsRaised ==
  (frame = "sync" /\ pc = "idle" /\ ~Falsy(args.entropy)
     /\ (~SupportedLanguage(GivenLanguage) \/ ~Hashable(args.entropy.val)))
  => ret.kind = "throw" /\ started = 0

\* C7: the integer a phrase encodes never has more than bits significant bits, also after the
\* nonce additions, so the phrase has at most ceil(bits / log2(B)) words.
C7_BitsBound ==
  (nonce >= 1 /\ SupportedLanguage(language))
  => /\ bitLength(entropyBn) <= bits
     /\ Len(brainSeed) <= Ceil(bits, Log2(Len(Wordlists[language])))

\* C8: for every bits the combined buffer has ceil(bits / 8) bytes.
C8_BufferLength == bits > 0 => Len(seedBuf) = Ceil(bits, BYTE)

\* the trimmed integer is below 2^bits, and the buffer has ceil(bits / 8) bytes up to the digest's length
TrimmedBelow ==
  bits > 0 => /\ entropyValue < Pow(2, bits)
              /\ Len(seedBuf) = Min(Ceil(bits, BYTE), HashLen)

\* w is the least-significant-digit-first radix-B encoding of v >= 1 in the wordlist of l
RadixEncoded(w, v, l) ==
  LET B == Len(Wordlists[l])
      k == Len(w)
  IN /\ v >= 1
     /\ k >= 1
     /\ \A i \in 1..k : /\ InWordlist(w[i], l)
                        /\ IndexOf(w[i], l) = (v \div Pow(B, i - 1)) % B
     /\ Pow(B, k) > v
     /\ Pow(B, k - 1) <= v
     /\ IndexOf(w[k], l) # 0
     /\ Decode(w, l) = v

\* C9: bnToSeed is the least-significant-digit-first radix-B encoding without padding: word i
\* has index floor(v / B^i) mod B, the number of words is the least k with B^k > v, the last
\* index is not zero, the indexes sum to v; 0 encodes as the empty phrase, which is never a result.
C9_RadixEncoding ==
  /\ \A l \in DOMAIN Wordlists : bnToSeed(0, l) = <<>>
  /\ \A g \in Generated : g # <<>>
  /\ (nonce >= 1 /\ SupportedLanguage(language)) => RadixEncoded(brainSeed, entropyBn, language)
  /\ frame = "none"
     => \A l \in DOMAIN Wordlists : \A v \in 1..MaxEncoded : RadixEncoded(bnToSeed(v, l), v, l)

\* the loop has encoded an integer of three digits or more
C9_Witness == nonce >= 1 /\ SupportedLanguage(language) /\ Len(brainSeed) >= 3 /\ entropyBn >= 16

\* C10: randomBrainSeed leaves the caller's config object unchanged on both paths.
C10_ConfigUnchanged == [][config' = config]_vars

====
